---- MODULE Spec2Model ----
(***************************************************************************)
(* Model of appfind (src/appfind.py): template parsing, glob and capture   *)
(* pattern compilation, matching, ranking, tagging (_glob_and_match,       *)
(* _format), and the selection step of launch_command.                     *)
(*                                                                         *)
(* Strings are sequences of symbols.  A symbol is a record [t, c]:         *)
(*   t = "lit"  a literal character c                                      *)
(*   t = "tok"  the placeholder {c}                                        *)
(*   t = "ref"  the back-reference (?P=c)                                  *)
(*   t = "grp"  the named group (?P<c>\d+)                                 *)
(*   t = "star" the glob wildcard *                                        *)
(* Paths, version strings, tags and selectors are sequences of             *)
(* one-character strings.  The literal characters used ("/", "v", "b" and  *)
(* digits) have no special meaning in a regular expression or a glob.      *)
(***************************************************************************)
EXTENDS Integers, Sequences, FiniteSets, TLC

VARIABLES
    templates,    \* cli argument: the configured templates
    prtokens_in,  \* cli argument: the pre-release token list as supplied
    tsort,        \* cli argument: the sort priority list
    vdefault,     \* cli argument: the explicit default version (<<>> = unset)
    fs,           \* the paths that exist on the filesystem
    pc,           \* position in cli / _glob_and_match / launch_command
    ti,           \* index of the template the current loop is at
    tokens,       \* _glob_and_match: tokens
    tdicts,       \* _glob_and_match: tdicts
    globbed,      \* indices of the templates glob.glob was called for
    app_matches,  \* _glob_and_match: app_matches
    unsorted,     \* app_matches as it was when sorted() was called
    prtokens,     \* _glob_and_match: prtokens (popped from while tagging)
    found_latest, \* _glob_and_match: found_latest
    found_default,\* _glob_and_match: found_default
    mi,           \* index of the match the tagging loop is at
    appver,       \* launch_command: the selector (<<>> before launch_command runs)
    launched,     \* the path given to subprocess.call (<<>> = none)
    error         \* the exception that ended the run ("" = none)

vars == <<templates, prtokens_in, tsort, vdefault, fs, pc, ti, tokens, tdicts,
          globbed, app_matches, unsorted, prtokens, found_latest,
          found_default, mi, appver, launched, error>>

----------------------------------------------------------------------------
(* Bounds of the model *)

MaxTemplates == 2
MaxFiles == 3
MaxTokens == 2

----------------------------------------------------------------------------
(* Symbols and strings *)

L(c) == [t |-> "lit", c |-> c]
P(k) == [t |-> "tok", c |-> k]
Ref(k) == [t |-> "ref", c |-> k]
Grp(k) == [t |-> "grp", c |-> k]
Star == [t |-> "star", c |-> "*"]

Digits == <<"0", "1", "2", "3", "4", "5", "6", "7", "8", "9">>
DigitChars == {Digits[i] : i \in 1..Len(Digits)}
IsDigit(ch) == ch \in DigitChars
DigitVal(ch) == (CHOOSE i \in 1..Len(Digits) : Digits[i] = ch) - 1

\* code point of a character (the order str comparison uses)
Ord(ch) ==
    IF IsDigit(ch) THEN 48 + DigitVal(ch)
    ELSE IF ch = "/" THEN 47
    ELSE IF ch = "b" THEN 98
    ELSE IF ch = "v" THEN 118
    ELSE 0

Range(s) == {s[i] : i \in 1..Len(s)}

\* the sequences over S of length at most n
SeqsUpTo(S, n) == UNION {[1..k -> S] : k \in 0..n}

\* the orderings of a finite set
RECURSIVE Perms(_)
Perms(S) ==
    IF S = {} THEN {<<>>}
    ELSE UNION {{<<x>> \o p : p \in Perms(S \ {x})} : x \in S}

\* str.replace(old, new) for a one-symbol old
ReplaceAll(s, old, new) == [i \in 1..Len(s) |-> IF s[i] = old THEN new ELSE s[i]]

\* a replace that forgets its count and replaces every occurrence
ReplaceEvery(s, old, new) == [i \in 1..Len(s) |-> IF s[i] = old THEN new ELSE s[i]]

\* str.replace(old, new, 1) for a one-symbol old
ReplaceFirst(s, old, new) ==
    [i \in 1..Len(s) |->
        IF s[i] = old /\ \A j \in 1..(i - 1) : s[j] # old THEN new ELSE s[i]]

\* list.pop(list.index(x))
PopFirst(s, x) ==
    LET i == CHOOSE i \in 1..Len(s) : s[i] = x /\ \A j \in 1..(i - 1) : s[j] # x
    IN  SubSeq(s, 1, i - 1) \o SubSeq(s, i + 1, Len(s))

\* int(v) for a digit string v
RECURSIVE StrToInt(_)
StrToInt(v) ==
    IF v = <<>> THEN 0
    ELSE 10 * StrToInt(SubSeq(v, 1, Len(v) - 1)) + DigitVal(v[Len(v)])

\* str(n) for n >= 0
RECURSIVE IntToStr(_)
IntToStr(n) ==
    IF n < 10 THEN <<Digits[n + 1]>>
    ELSE IntToStr(n \div 10) \o <<Digits[(n % 10) + 1]>>

----------------------------------------------------------------------------
(* Template parsing: the first loop of _glob_and_match *)

\* a bracket test that is content with either bracket
HasEitherBracket(template) == L("[") \in Range(template) \/ L("]") \in Range(template)

\* "[" in template and "]" in template
HasBrackets(template) == L("[") \in Range(template) /\ L("]") \in Range(template)

\* the last "]" of the template, the end of the greedy group of version_regex
LastClose(template) ==
    CHOOSE j \in 1..Len(template) :
        template[j] = L("]") /\ \A k \in (j + 1)..Len(template) : template[k] # L("]")

\* version_regex.match(template) is not None: some "[" precedes some "]"
VersionRegexMatches(template) ==
    \E i, j \in 1..Len(template) : i < j /\ template[i] = L("[") /\ template[j] = L("]")

\* match.group('version'): the leading .* is greedy, so the group opens after
\* the last "[" that still has a "]" behind it, and closes at the last "]"
VersionGroup(template) ==
    LET j == LastClose(template)
        i == CHOOSE i \in 1..(j - 1) :
                 template[i] = L("[") /\ \A k \in (i + 1)..(j - 1) : template[k] # L("[")
    IN  SubSeq(template, i + 1, j - 1)

\* template.replace("[", "").replace("]", "")
RECURSIVE StripBrackets(_)
StripBrackets(template) ==
    IF template = <<>> THEN <<>>
    ELSE IF Head(template) \in {L("["), L("]")} THEN StripBrackets(Tail(template))
    ELSE <<Head(template)>> \o StripBrackets(Tail(template))

\* os.getcwd()
Cwd == <<L("/")>>

\* os.path.normpath, as far as the slashes go: runs of "/" collapse and a
\* trailing "/" is dropped
RECURSIVE NormSlashes(_)
NormSlashes(p) ==
    IF Len(p) <= 1 THEN p
    ELSE IF p[Len(p)] = L("/") THEN NormSlashes(SubSeq(p, 1, Len(p) - 1))
    ELSE IF p[1] = L("/") /\ p[2] = L("/") THEN NormSlashes(Tail(p))
    ELSE <<p[1]>> \o NormSlashes(Tail(p))

\* os.path.abspath(os.path.expanduser(tpath)), for a tpath without "~", "."
\* and ".." segments
Abspath(tpath) ==
    IF tpath # <<>> /\ tpath[1] = L("/") THEN NormSlashes(tpath)
    ELSE IF Cwd[Len(Cwd)] = L("/") THEN NormSlashes(Cwd \o tpath)
    ELSE NormSlashes(Cwd \o <<L("/")>> \o tpath)

\* token_regex.findall(template), as a set
TokenMatches(template) == {template[i].c : i \in {j \in 1..Len(template) : template[j].t = "tok"}}

----------------------------------------------------------------------------
(* _format and the two patterns *)

\* _format(template, tokens): keys in dict order; a list value replaces every
\* occurrence by value[0] and then the first value[0] by value[1]
RECURSIVE Format(_, _, _)
Format(template, keys, d) ==
    IF keys = <<>> THEN template
    ELSE LET key == Head(keys)
             value == d[key]
             t1 == IF value.list
                   THEN ReplaceFirst(ReplaceAll(template, P(key), value.v[1]),
                                     value.v[1], value.v[2])
                   ELSE ReplaceAll(template, P(key), value.v[1])
         IN  Format(t1, Tail(keys), d)

\* glob_pattern
GlobPattern(tpath, tks) ==
    Format(tpath, tks, [key \in Range(tks) |-> [list |-> FALSE, v |-> <<Star>>]])

\* exec_regex_pattern
ExecRegexPattern(tpath, tks) ==
    Format(tpath, tks, [key \in Range(tks) |-> [list |-> TRUE, v |-> <<Ref(key), Grp(key)>>]])

\* fnmatch of one path against the pattern: "*" stays within a path segment
RECURSIVE GlobMatch(_, _)
GlobMatch(p, s) ==
    IF p = <<>> THEN s = <<>>
    ELSE IF Head(p) = Star
         THEN GlobMatch(Tail(p), s)
              \/ (s # <<>> /\ Head(s) # "/" /\ GlobMatch(p, Tail(s)))
         ELSE s # <<>> /\ Head(p).t = "lit" /\ Head(s) = Head(p).c
              /\ GlobMatch(Tail(p), Tail(s))

\* glob.glob(glob_pattern), as a set
Glob(pattern, files) == {f \in files : GlobMatch(pattern, f)}

\* re.IGNORECASE
Fold(ch) == IF ch = "V" THEN "v" ELSE IF ch = "B" THEN "b" ELSE ch

\* the length of the run of digits s starts with
RECURSIVE DigitRun(_)
DigitRun(s) == IF s # <<>> /\ IsDigit(Head(s)) THEN 1 + DigitRun(Tail(s)) ELSE 0

NoMatch == [ok |-> FALSE, groups |-> <<>>]

\* exec_regex.match(glob_path) for the anchored pattern p: backtracking, the
\* groups greedy; groups is match.groupdict()
RECURSIVE RegexMatch(_, _, _), TryGroup(_, _, _, _)
RegexMatch(p, s, env) ==
    IF p = <<>> THEN [ok |-> s = <<>>, groups |-> env]
    ELSE LET h == Head(p) IN
         CASE h.t = "lit" ->
                 IF s # <<>> /\ Fold(Head(s)) = Fold(h.c)
                 THEN RegexMatch(Tail(p), Tail(s), env) ELSE NoMatch
           [] h.t = "grp" -> TryGroup(p, s, env, DigitRun(s))
           [] h.t = "ref" ->
                 LET g == env[h.c] IN
                 IF Len(g) <= Len(s) /\ SubSeq(s, 1, Len(g)) = g
                 THEN RegexMatch(Tail(p), SubSeq(s, Len(g) + 1, Len(s)), env)
                 ELSE NoMatch
           [] OTHER -> NoMatch

TryGroup(p, s, env, n) ==
    IF n = 0 THEN NoMatch
    ELSE LET r == RegexMatch(Tail(p), SubSeq(s, n + 1, Len(s)),
                             (Head(p).c :> SubSeq(s, 1, n)) @@ env)
         IN  IF r.ok THEN r ELSE TryGroup(p, s, env, n - 1)

\* tdict["tversion"].format(**token_matches)
RECURSIVE Render(_, _)
Render(tversion, token_matches) ==
    IF tversion = <<>> THEN <<>>
    ELSE LET h == Head(tversion) IN
         (IF h.t = "tok" THEN IntToStr(token_matches[h.c]) ELSE <<h.c>>)
         \o Render(Tail(tversion), token_matches)

\* the app_match built for one glob_path the pattern accepts (lines 285-293):
\* the zero template of all tokens, updated with this template's groups
AppMatch(tdict, tks, glob_path, groups) ==
    LET token_matches == [k \in DOMAIN groups |-> StrToInt(groups[k])]
    IN  [path |-> glob_path,
         version |-> Render(tdict.tversion, token_matches),
         vals |-> [k \in Range(tks) |->
                     IF k \in DOMAIN token_matches THEN token_matches[k] ELSE 0],
         has_tags |-> FALSE,
         tags |-> <<>>,
         src |-> tdict.idx]

\* the app_matches one template appends, for the order glob_paths the glob
\* returned its paths in
RECURSIVE MatchAll(_, _, _)
MatchAll(tdict, tks, glob_paths) ==
    IF glob_paths = <<>> THEN <<>>
    ELSE LET m == RegexMatch(ExecRegexPattern(tdict.tpath, tks), Head(glob_paths), <<>>)
         IN  (IF m.ok THEN <<AppMatch(tdict, tks, Head(glob_paths), m.groups)>> ELSE <<>>)
             \o MatchAll(tdict, tks, Tail(glob_paths))

----------------------------------------------------------------------------
(* Ranking: sorted(app_matches, key=..., reverse=True) *)

\* operator.itemgetter(*tsort) raises KeyError for a name that is no key of
\* the app_match; its keys are the tokens of all templates, path and version
SortKeyDefined(m, ts) == \A i \in 1..Len(ts) : ts[i] \in DOMAIN m.vals

\* the key tuple operator.itemgetter(*tsort)(m)
TokenKey(m, ts) == [i \in 1..Len(ts) |-> m.vals[ts[i]]]

\* a < b for two tuples of integers of one length
RECURSIVE TupleLess(_, _)
TupleLess(a, b) ==
    /\ a # <<>>
    /\ \/ Head(a) < Head(b)
       \/ Head(a) = Head(b) /\ TupleLess(Tail(a), Tail(b))

\* a < b for two strings: by code point, a proper prefix first
RECURSIVE StrLess(_, _)
StrLess(a, b) ==
    /\ b # <<>>
    /\ \/ a = <<>>
       \/ Ord(Head(a)) < Ord(Head(b))
       \/ Head(a) = Head(b) /\ StrLess(Tail(a), Tail(b))

\* key(a) < key(b) for the key the code sorts by
KeyLess(a, b, ts) ==
    IF ts # <<>> THEN TupleLess(TokenKey(a, ts), TokenKey(b, ts))
    ELSE StrLess(a.version, b.version)

\* a descending insertion that puts m in front of the elements of equal key
RECURSIVE InsertDescUnstable(_, _, _)
InsertDescUnstable(s, m, ts) ==
    IF s = <<>> THEN <<m>>
    ELSE IF ~KeyLess(m, Head(s), ts) THEN <<m>> \o s
    ELSE <<Head(s)>> \o InsertDescUnstable(Tail(s), m, ts)

\* where a stable descending sort puts m into the sorted sequence s: behind
\* every element whose key is not smaller
RECURSIVE InsertDesc(_, _, _)
InsertDesc(s, m, ts) ==
    IF s = <<>> THEN <<m>>
    ELSE IF KeyLess(Head(s), m, ts) THEN <<m>> \o s
    ELSE <<Head(s)>> \o InsertDesc(Tail(s), m, ts)

\* sorted(ms, key=..., reverse=True): descending, equal keys in input order
RECURSIVE Sorted(_, _)
Sorted(ms, ts) ==
    IF ms = <<>> THEN <<>>
    ELSE InsertDesc(Sorted(SubSeq(ms, 1, Len(ms) - 1), ts), ms[Len(ms)], ts)

----------------------------------------------------------------------------
(* Tagging: one iteration of the loop of lines 302-319 *)

LATEST == <<"l", "a", "t", "e", "s", "t">>
DEFAULT == <<"d", "e", "f", "a", "u", "l", "t">>

\* the tag a token name makes (token names are single letters here)
NameTag(k) == <<k>>

\* [k for k, v in app_match.items() if v is not 0] restricted to the token
\* keys, in dict order; path, version and tags are never token names here
NonZeroKeys(m, tks) == SelectSeq(tks, LAMBDA k : m.vals[k] # 0)

\* x in prtokens
InList(x, lst) == x \in Range(lst)

\* a latest test that does not look at found_latest
LatestHereUnguarded(m, tks, fl, prt) ==
    ~\E k \in Range(NonZeroKeys(m, tks)) : InList(k, prt)

\* the condition of line 307
LatestHere(m, tks, fl, prt) ==
    ~fl /\ ~\E k \in Range(NonZeroKeys(m, tks)) : InList(k, prt)

\* the condition of line 313
DefaultHere(m, vd) == vd # <<>> /\ vd = m.version

\* the list the loop of line 317 iterates over
PrTokensHere(m, tks, prt) == SelectSeq(NonZeroKeys(m, tks), LAMBDA k : InList(k, prt))

\* prtokens after the pops of line 319 for the names in ks
RECURSIVE PopAll(_, _)
PopAll(prt, ks) == IF ks = <<>> THEN prt ELSE PopAll(PopFirst(prt, Head(ks)), Tail(ks))

\* the break condition of line 303
EarlyExit(fl, fd, prt) == fl /\ fd /\ prt = <<>>

\* the tags the body gives to m
TagsFor(m, tks, fl, prt, vd) ==
    (IF LatestHere(m, tks, fl, prt)
     THEN (IF vd = <<>> THEN <<DEFAULT>> ELSE <<>>) \o <<LATEST>> ELSE <<>>)
    \o (IF DefaultHere(m, vd) THEN <<DEFAULT>> ELSE <<>>)
    \o [i \in 1..Len(PrTokensHere(m, tks, prt)) |-> NameTag(PrTokensHere(m, tks, prt)[i])]

----------------------------------------------------------------------------
(* Inputs *)

\* "v[{m}]", relative to the working directory
T1 == <<L("v"), L("["), P("m"), L("]")>>
\* "/v[{m}b{b}]"
T2 == <<L("/"), L("v"), L("["), P("m"), L("b"), P("b"), L("]")>>
\* "/[{m}]/v{m}b{b}": the token m occurs twice
T3 == <<L("/"), L("["), P("m"), L("]"), L("/"), L("v"), P("m"), L("b"), P("b")>>
\* "/v{m}": no brackets
T4 == <<L("/"), L("v"), P("m")>>
\* "/v[{m}": no closing bracket
T5 == <<L("/"), L("v"), L("["), P("m")>>

GoodTemplates == {T1, T2, T3}
BadTemplates == {T4, T5}

Paths ==
    { <<"/", "v", "1">>, <<"/", "v", "0", "1">>,
      <<"/", "v", "1", "b", "1">>, <<"/", "v", "1", "b", "2">>,
      <<"/", "v", "2", "b", "0">>,
      <<"/", "1", "/", "v", "1", "b", "1">>, <<"/", "1", "/", "v", "2", "b", "1">> }

\* token names a configuration may use; x occurs in no template
Names == {"m", "b", "x"}

FileSystems == {f \in SUBSET Paths : Cardinality(f) <= MaxFiles}
TokenLists(S) == SeqsUpTo(S, MaxTokens)
DefaultVersions == {<<>>, <<"1">>}
Selectors == {DEFAULT, <<"1">>}

\* the lists of at most MaxTemplates distinct templates of S
TemplateLists(S) ==
    {ts \in SeqsUpTo(S, MaxTemplates) :
        ts # <<>> /\ \A i, j \in 1..Len(ts) : i # j => ts[i] # ts[j]}

\* the configurations the tagging is explored under, and those the ranking is
TagConfigs ==
    [prtokens : TokenLists({"b", "m"}), tsort : {<<>>, <<"m">>}, vdefault : DefaultVersions]
SortConfigs ==
    [prtokens : {<<>>}, tsort : TokenLists(Names), vdefault : {<<>>}]
PlainConfig == [prtokens |-> <<>>, tsort |-> <<>>, vdefault |-> <<>>]

----------------------------------------------------------------------------
(* The state machine *)

Start ==
    /\ pc = "parse"
    /\ ti = 1
    /\ tokens = <<>>
    /\ tdicts = <<>>
    /\ globbed = {}
    /\ app_matches = <<>>
    /\ unsorted = <<>>
    /\ prtokens = prtokens_in
    /\ found_latest = FALSE
    /\ found_default = FALSE
    /\ mi = 1
    /\ launched = <<>>
    /\ error = ""

\* the arguments cli is given and the state _glob_and_match starts in
Configured(lists, configs) ==
    /\ templates \in lists
    /\ fs \in FileSystems
    /\ \E c \in configs :
           /\ prtokens_in = c.prtokens
           /\ tsort = c.tsort
           /\ vdefault = c.vdefault
    /\ appver = <<>>
    /\ Start

\* well-formed templates under every configuration of the tagging
Init == Configured(TemplateLists(GoodTemplates), TagConfigs)

\* well-formed templates under every configuration of the ranking
InitRank == Configured(TemplateLists(GoodTemplates), SortConfigs)

\* every template list, well-formed or not, under the plain configuration
InitMatch == Configured(TemplateLists(GoodTemplates \cup BadTemplates), {PlainConfig})

\* the exceptions a run can end in
BracketError == "ClickException: Error: must capture the version string in the template with brackets!"
NothingFound == "ClickException: No executables found matching templates."
NoVersionFound == "ClickException: No version found matching"

Raise(e) ==
    /\ pc' = "error"
    /\ error' = e

\* one iteration of the loop of lines 219-235
ParseTemplate ==
    /\ pc = "parse"
    /\ LET template == templates[ti] IN
       IF ~HasBrackets(template)
       THEN /\ Raise(BracketError)
            /\ UNCHANGED <<ti, tokens, tdicts>>
       ELSE IF ~VersionRegexMatches(template)
       THEN /\ Raise("AttributeError")
            /\ UNCHANGED <<ti, tokens, tdicts>>
       ELSE /\ tdicts' = Append(tdicts, [tpath |-> Abspath(StripBrackets(template)),
                                         tversion |-> VersionGroup(template),
                                         idx |-> ti])
            /\ \E new \in Perms(TokenMatches(template) \ Range(tokens)) :
                   tokens' = tokens \o new
            /\ IF ti = Len(templates)
               THEN pc' = "glob" /\ ti' = 1
               ELSE pc' = pc /\ ti' = ti + 1
            /\ error' = error
    /\ UNCHANGED <<templates, prtokens_in, tsort, vdefault, fs, globbed, app_matches,
                   unsorted, prtokens, found_latest, found_default, mi, appver, launched>>

\* one iteration of the loop of lines 244-293
GlobAndMatch ==
    /\ pc = "glob"
    /\ LET tdict == tdicts[ti]
           globs == Glob(GlobPattern(tdict.tpath, tokens), fs)
       IN  \E glob_paths \in Perms(globs) :
               app_matches' = app_matches \o MatchAll(tdict, tokens, glob_paths)
    /\ globbed' = globbed \cup {ti}
    /\ IF ti = Len(tdicts)
       THEN pc' = "sort" /\ ti' = ti
       ELSE pc' = pc /\ ti' = ti + 1
    /\ UNCHANGED <<templates, prtokens_in, tsort, vdefault, fs, tokens, tdicts, unsorted,
                   prtokens, found_latest, found_default, mi, appver, launched, error>>

\* lines 295-301
Sort ==
    /\ pc = "sort"
    /\ unsorted' = app_matches
    /\ IF app_matches # <<>> /\ tsort # <<>>
          /\ \E i \in 1..Len(app_matches) : ~SortKeyDefined(app_matches[i], tsort)
       THEN /\ Raise("KeyError")
            /\ UNCHANGED app_matches
       ELSE /\ app_matches' = Sorted(app_matches, tsort)
            /\ pc' = IF app_matches = <<>> THEN "return" ELSE "tag"
            /\ error' = error
    /\ UNCHANGED <<templates, prtokens_in, tsort, vdefault, fs, ti, tokens, tdicts, globbed,
                   prtokens, found_latest, found_default, mi, appver, launched>>

\* one iteration of the loop of lines 302-319
Tag ==
    /\ pc = "tag"
    /\ IF EarlyExit(found_latest, found_default, prtokens)
       THEN /\ pc' = "return"
            /\ UNCHANGED <<app_matches, prtokens, found_latest, found_default, mi>>
       ELSE LET m == app_matches[mi] IN
            /\ app_matches' =
                   [app_matches EXCEPT ![mi].has_tags = TRUE,
                                       ![mi].tags = TagsFor(m, tokens, found_latest,
                                                            prtokens, vdefault)]
            /\ found_latest' = (found_latest \/ LatestHere(m, tokens, found_latest, prtokens))
            /\ found_default' = (found_default \/ DefaultHere(m, vdefault))
            /\ prtokens' = PopAll(prtokens, PrTokensHere(m, tokens, prtokens))
            /\ mi' = mi + 1
            /\ pc' = IF mi = Len(app_matches) THEN "return" ELSE pc
    /\ UNCHANGED <<templates, prtokens_in, tsort, vdefault, fs, ti, tokens, tdicts, globbed,
                   unsorted, appver, launched, error>>

\* cli, lines 94-100
Cli ==
    /\ pc = "return"
    /\ IF app_matches = <<>>
       THEN Raise(NothingFound)
       ELSE pc' = "launch" /\ error' = error
    /\ UNCHANGED <<templates, prtokens_in, tsort, vdefault, fs, ti, tokens, tdicts, globbed,
                   app_matches, unsorted, prtokens, found_latest, found_default, mi,
                   appver, launched>>

\* next((x for x in matches if appver in tags), None), as an index (0 = None)
ByTag(ms, sel) ==
    IF \E i \in 1..Len(ms) : ms[i].has_tags /\ InList(sel, ms[i].tags)
    THEN CHOOSE i \in 1..Len(ms) :
             /\ ms[i].has_tags /\ InList(sel, ms[i].tags)
             /\ \A j \in 1..(i - 1) : ~(ms[j].has_tags /\ InList(sel, ms[j].tags))
    ELSE 0

\* next((x for x in matches if x['version'] == appver), None), as an index
ByVersion(ms, sel) ==
    IF \E i \in 1..Len(ms) : ms[i].version = sel
    THEN CHOOSE i \in 1..Len(ms) :
             ms[i].version = sel /\ \A j \in 1..(i - 1) : ms[j].version # sel
    ELSE 0

\* launch_command, lines 135-160: the elif of line 143 is never taken, so a
\* selector nothing matches reaches match['path'] with match = None
Launch ==
    /\ pc = "launch"
    /\ \E sel \in Selectors :
           /\ appver' = sel
           /\ LET bytag == ByTag(app_matches, sel)
                  match == IF bytag = 0 THEN ByVersion(app_matches, sel) ELSE bytag
              IN  IF match = 0
                  THEN Raise("TypeError") /\ launched' = launched
                  ELSE /\ pc' = "done"
                       /\ launched' = app_matches[match].path
                       /\ error' = error
    /\ UNCHANGED <<templates, prtokens_in, tsort, vdefault, fs, ti, tokens, tdicts, globbed,
                   app_matches, unsorted, prtokens, found_latest, found_default, mi>>

Next == ParseTemplate \/ GlobAndMatch \/ Sort \/ Tag \/ Cli \/ Launch

Spec == Init /\ [][Next]_vars
SpecRank == InitRank /\ [][Next]_vars
SpecMatch == InitMatch /\ [][Next]_vars

----------------------------------------------------------------------------
(* Properties *)

Matches == 1..Len(app_matches)

\* launch_command has run
LaunchRan == appver # <<>>

\* the tagging loop has ended
TaggingDone == pc \in {"return", "launch", "done"} \/ (pc = "error" /\ LaunchRan)

\* sorted() has returned
Ranked == pc = "tag" \/ TaggingDone

HasTag(m, t) == m.has_tags /\ InList(t, m.tags)
NumTagged(t) == Cardinality({i \in Matches : HasTag(app_matches[i], t)})

\* m has a non-zero value for token k
NonZero(m, k) == k \in DOMAIN m.vals /\ m.vals[k] # 0

\* m has a non-zero value for a token of the configured pre-release list
PreRelease(m) == \E k \in Range(prtokens_in) : NonZero(m, k)

\* C1: after the tagging pass no match with a non-zero value for a configured
\* pre-release token is tagged latest, nor default when no explicit default
\* version is configured; second and later carriers of a token included.
C1_PreReleaseNeverLatest ==
    TaggingDone =>
        \A i \in Matches :
            PreRelease(app_matches[i]) =>
                /\ ~HasTag(app_matches[i], LATEST)
                /\ vdefault = <<>> => ~HasTag(app_matches[i], DEFAULT)

\* C2: after the tagging pass at most one match is tagged latest, and exactly
\* one is whenever some match has value 0 for every configured pre-release
\* token.
C2_LatestUnique ==
    TaggingDone =>
        /\ NumTagged(LATEST) <= 1
        /\ (\E i \in Matches : ~PreRelease(app_matches[i])) => NumTagged(LATEST) = 1

\* a pre-release match is ranked before a clean one, and the clean one is
\* the one tagged latest
C2_Witness ==
    /\ TaggingDone
    /\ NumTagged(LATEST) = 1
    /\ \E i, j \in Matches :
           /\ i < j
           /\ PreRelease(app_matches[i])
           /\ ~PreRelease(app_matches[j])
           /\ HasTag(app_matches[j], LATEST)

\* C3: after the tagging pass at most one match is tagged default: with an
\* explicit default version it is the first match of that version, without
\* one it is exactly the match tagged latest.
C3_DefaultUnique ==
    TaggingDone =>
        /\ NumTagged(DEFAULT) <= 1
        /\ vdefault # <<>> =>
               \A i \in Matches :
                   HasTag(app_matches[i], DEFAULT) <=>
                       /\ app_matches[i].version = vdefault
                       /\ \A j \in 1..(i - 1) : app_matches[j].version # vdefault
        /\ vdefault = <<>> =>
               \A i \in Matches :
                   HasTag(app_matches[i], DEFAULT) <=> HasTag(app_matches[i], LATEST)

\* C4: each configured pre-release token is a tag of at most one match, the
\* first in sorted order whose value for it is non-zero, also when the list
\* names a token more than once.
C4_PreReleaseTagOnce ==
    TaggingDone =>
        \A k \in Range(prtokens_in) :
            /\ NumTagged(NameTag(k)) <= 1
            /\ \A i \in Matches :
                   HasTag(app_matches[i], NameTag(k)) =>
                       /\ NonZero(app_matches[i], k)
                       /\ \A j \in 1..(i - 1) : ~NonZero(app_matches[j], k)

\* the value string a gives each placeholder put in its place
RECURSIVE Instantiate(_, _)
Instantiate(tpath, a) ==
    IF tpath = <<>> THEN <<>>
    ELSE (IF Head(tpath).t = "tok" THEN a[Head(tpath).c] ELSE <<Head(tpath).c>>)
         \o Instantiate(Tail(tpath), a)

\* the digit strings that occur in the path f
DigitSubstrings(f) ==
    {SubSeq(f, i, j) : <<i, j>> \in
        {ij \in (1..Len(f)) \X (1..Len(f)) :
            ij[1] <= ij[2] /\ \A k \in ij[1]..ij[2] : IsDigit(f[k])}}

\* f is tpath with one digit string per token name, the same at every
\* occurrence of the name
Consistent(tpath, f) ==
    \E a \in [TokenMatches(tpath) -> DigitSubstrings(f)] : Instantiate(tpath, a) = f

\* the app_matches template i produced for the path f
MatchesFrom(i, f) ==
    {j \in Matches : app_matches[j].src = i /\ app_matches[j].path = f}

\* the placeholder at position j of tpath is the first one of its token
FirstOccurrence(tpath, j) == \A h \in 1..(j - 1) : tpath[h] # tpath[j]

\* C5: in the capture pattern the first occurrence of a token is a named
\* digit group and every later one a back-reference to it, and a path yields
\* one match if all occurrences of each token carry the same digit string
\* and no match otherwise, whatever the order the tokens are substituted in.
C5_BackReference ==
    \A i \in globbed :
        LET tpath == tdicts[i].tpath
            pattern == ExecRegexPattern(tpath, tokens)
        IN  /\ Len(pattern) = Len(tpath)
            /\ \A j \in 1..Len(tpath) :
                   pattern[j] = IF tpath[j].t # "tok" THEN tpath[j]
                                ELSE IF FirstOccurrence(tpath, j) THEN Grp(tpath[j].c)
                                ELSE Ref(tpath[j].c)
            /\ \A f \in fs :
                   IF Consistent(tpath, f)
                   THEN Cardinality(MatchesFrom(i, f)) = 1
                   ELSE MatchesFrom(i, f) = {}

\* a template with a token that occurs twice has met a path with the same
\* digits at both occurrences, which it accepted, and a path with different
\* digits, which the glob found and the pattern rejected; two tokens were
\* substituted
C5_Witness ==
    \E i \in globbed :
        LET tpath == tdicts[i].tpath IN
        /\ Len(tokens) >= 2
        /\ \E j \in 1..Len(tpath) : tpath[j].t = "tok" /\ ~FirstOccurrence(tpath, j)
        /\ \E f, g \in fs :
               /\ MatchesFrom(i, f) # {}
               /\ g \in Glob(GlobPattern(tpath, tokens), fs)
               /\ MatchesFrom(i, g) = {}
               /\ \E a \in [1..Len(tpath) -> DigitSubstrings(g)] :
                      /\ g = Instantiate([j \in 1..Len(tpath) |->
                                 IF tpath[j].t = "tok" THEN P(j) ELSE tpath[j]], a)
                      /\ \E j, h \in 1..Len(tpath) :
                             tpath[j].t = "tok" /\ tpath[j] = tpath[h] /\ a[j] # a[h]

\* what the ranking compares, without the tags
Core(m) == [path |-> m.path, version |-> m.version, vals |-> m.vals, src |-> m.src]
Cores(ms) == [i \in 1..Len(ms) |-> Core(ms[i])]

\* the sort key of the claim: the token values in sortPriority order, or the
\* characters of the version string
RankKey(m) ==
    IF tsort # <<>> THEN [i \in 1..Len(tsort) |-> m.vals[tsort[i]]]
    ELSE [i \in 1..Len(m.version) |-> Ord(m.version[i])]

\* lexicographic order of two keys
LexLess(a, b) ==
    \/ \E i \in 1..Len(a) :
           /\ i <= Len(b)
           /\ a[i] < b[i]
           /\ \A j \in 1..(i - 1) : a[j] = b[j]
    \/ Len(a) < Len(b) /\ \A j \in 1..Len(a) : a[j] = b[j]

SameKey(a, b) == RankKey(a) = RankKey(b)
Count(x, seq) == Cardinality({i \in 1..Len(seq) : seq[i] = x})

\* C6: the ranked sequence is a permutation of the discovered matches in
\* non-increasing order of the sort key (token values in sortPriority order,
\* 0 for a token the match's template does not declare; else the version
\* string), and matches of equal key keep the order they had before.
C6_RankedStable ==
    Ranked =>
        LET s == Cores(app_matches)
            u == Cores(unsorted)
        IN  /\ Len(s) = Len(u)
            /\ \A x \in Range(s) \cup Range(u) : Count(x, s) = Count(x, u)
            /\ \A i, j \in 1..Len(s) : i < j => ~LexLess(RankKey(s[i]), RankKey(s[j]))
            /\ \A i \in 1..Len(s) :
                   SelectSeq(s, LAMBDA x : SameKey(x, s[i]))
                       = SelectSeq(u, LAMBDA x : SameKey(x, s[i]))
            /\ \A i \in 1..Len(s) : \A k \in Range(tokens) :
                   k \notin TokenMatches(templates[s[i].src]) => s[i].vals[k] = 0

\* a token-ranked list that the sort reordered and that has two different
\* matches of equal key
C6_Witness ==
    /\ Ranked
    /\ tsort # <<>>
    /\ Cores(app_matches) # Cores(unsorted)
    /\ \E i, j \in Matches :
           /\ i < j
           /\ SameKey(app_matches[i], app_matches[j])
           /\ app_matches[i].path # app_matches[j].path

\* C7: with a sortPriority token that no template has, ranking completes
\* without error.
C7_UnknownSortTokenRanks ==
    (/\ pc \notin {"parse", "glob", "sort"}
     /\ \E k \in Range(tsort) : k \notin Range(tokens))
        => ~(pc = "error" /\ error = "KeyError")

\* the template lacks "[" or lacks "]"
LacksBracket(template) ==
    \/ \A i \in 1..Len(template) : template[i] # L("[")
    \/ \A i \in 1..Len(template) : template[i] # L("]")

FirstLacking ==
    CHOOSE i \in 1..Len(templates) :
        LacksBracket(templates[i]) /\ \A j \in 1..(i - 1) : ~LacksBracket(templates[j])

\* C8: with a template that lacks a bracket anywhere in the list, the run
\* goes no further than that template and ends there in the configuration
\* error: no glob is performed for any template and no match is produced.
C8_FailFast ==
    (\E i \in 1..Len(templates) : LacksBracket(templates[i])) =>
        /\ pc \in {"parse", "error"}
        /\ ti <= FirstLacking
        /\ pc = "error" => error = BracketError /\ ti = FirstLacking
        /\ globbed = {}
        /\ app_matches = <<>>
        /\ launched = <<>>

\* the run ended in the configuration error at the second template, the
\* first being well-formed with a path on the filesystem that it accepts
C8_Witness ==
    /\ pc = "error"
    /\ error = BracketError
    /\ ti > 1
    /\ ~LacksBracket(templates[1])
    /\ \E f \in fs : Consistent(Abspath(StripBrackets(templates[1])), f)
    /\ globbed = {}
    /\ app_matches = <<>>

\* C9: the selector is resolved by tag and then by version, and a selector
\* that is neither a tag nor a version of any match ends in the selection
\* error with nothing launched.
C9_SelectionError ==
    LaunchRan =>
        LET bytag == ByTag(app_matches, appver)
            byversion == ByVersion(app_matches, appver)
        IN  /\ bytag # 0 => launched = app_matches[bytag].path
            /\ bytag = 0 /\ byversion # 0 => launched = app_matches[byversion].path
            /\ bytag = 0 /\ byversion = 0 =>
                   pc = "error" /\ error = NoVersionFound /\ launched = <<>>

\* the tags the loop body gives to each match of ms when it runs over all of
\* ms, without the break of line 303
RECURSIVE FullTags(_, _, _)
FullTags(ms, fl, prt) ==
    IF ms = <<>> THEN <<>>
    ELSE <<TagsFor(Head(ms), tokens, fl, prt, vdefault)>>
         \o FullTags(Tail(ms),
                     fl \/ LatestHere(Head(ms), tokens, fl, prt),
                     PopAll(prt, PrTokensHere(Head(ms), tokens, prt)))

\* C10: the loop with its early exit leaves every match with the same set of
\* tags as the loop body run over the whole list.
C10_EarlyExitEquivalent ==
    TaggingDone =>
        \A i \in Matches :
            Range(IF app_matches[i].has_tags THEN app_matches[i].tags ELSE <<>>)
                = Range(FullTags(app_matches, FALSE, prtokens_in)[i])

----------------------------------------------------------------------------
(* Diagnoses of the violated properties *)

\* no two matches have the explicit default version
DefaultVersionOnce ==
    \A i, j \in Matches :
        i # j => ~(app_matches[i].version = vdefault /\ app_matches[j].version = vdefault)

\* C3 and C10 hold of the runs in which at most one match has the explicit
\* default version: both fail only on the repeated default tag of line 313
OnlyRepeatedDefault ==
    DefaultVersionOnce => C3_DefaultUnique /\ C10_EarlyExitEquivalent

\* C4 holds of the pre-release lists that name no token twice
OnlyRepeatedToken ==
    (\A i, j \in 1..Len(prtokens_in) : i # j => prtokens_in[i] # prtokens_in[j])
        => C4_PreReleaseTagOnce

\* sorted() raises KeyError only for a sortPriority token no template has
OnlyUnknownSortToken ==
    (\A k \in Range(tsort) : k \in Range(tokens)) => ~(pc = "error" /\ error = "KeyError")

====
